---------------------------- MODULE Spec2Model ----------------------------
(***************************************************************************)
(* A model of the attrs helpers: converters (to_bool, default_if_none),    *)
(* setters (pipe, validate, convert, frozen), filters (include, exclude),  *)
(* cmp_using, evolve, the asdict / astuple projection, VersionInfo and      *)
(* converters.optional.                                                    *)
(*                                                                         *)
(* The library is a set of synchronous functions.  Every component has its *)
(* own variables (the arguments of the last call and what the call         *)
(* returned or raised), its own actions (one per entry point) and its own  *)
(* specification; the variables of the other components stay as they are.  *)
(***************************************************************************)
EXTENDS Integers, Sequences, FiniteSets, TLC

VARIABLES
    tb_val,      \* to_bool: the argument of the last call ("idle" before)
    tb_res,      \* to_bool: what the call returned or raised
    pp_setters,  \* setters.pipe: the setters the pipe was built from
    pp_attr,     \* the attribute written: its validator and converter
    pp_val,      \* the value written
    pp_res,      \* what pipe_setter returned or raised
    pp_log,      \* the calls made during the write, in order
    df_args,     \* default_if_none: the (default, factory) it was called with
    df_conv,     \* the converter it returned, or what it raised
    df_val,      \* the argument of the converter's last call
    df_res,      \* what the converter returned
    df_nones,    \* calls of the converter with None since it was built
    df_calls,    \* calls of the factory since the converter was built
    cm_cls,      \* cmp_using: the class the last call returned
    cm_op,       \* the method of the class called last ("" before any)
    cm_self,     \* the instance it was called on
    cm_other,    \* its other operand
    cm_res,      \* what the method returned or raised
    cm_log,      \* the calls of the caller's predicates the method made
    fl_what,     \* filters: the selectors include and exclude were given
    fl_attr,     \* the attribute the two filters were called with
    fl_value,    \* the value they were called with
    fl_inc,      \* what include(*what)(attribute, value) returned
    fl_exc,      \* what exclude(*what)(attribute, value) returned
    ev_inst,     \* evolve: the instance it is called with
    ev_changes,  \* the keyword changes it is called with
    ev_res,      \* the instance it returned, or what it raised
    pj_inst,     \* asdict / astuple: the instance projected
    pj_recurse,  \* the recurse argument
    pj_filter,   \* the filter argument
    pj_retain,   \* the retain_collection_types argument
    pj_fn,       \* "asdict" or "astuple" once called, "" before
    pj_res,      \* what the call returned or raised
    vi_self,     \* VersionInfo: the instance compared
    vi_other,    \* what it is compared to
    vi_op,       \* the comparison method used ("" before the comparison)
    vi_res,      \* what the comparison returned or raised
    ow_inner,    \* optional: the converter it was called with
    ow_conv,     \* the converter it returned
    ow_val,      \* the argument of the returned converter's last call
    ow_res       \* what that call returned or raised

boolVars == <<tb_val, tb_res>>
pipeVars == <<pp_setters, pp_attr, pp_val, pp_res, pp_log>>
defVars == <<df_args, df_conv, df_val, df_res, df_nones, df_calls>>
cmpVars == <<cm_cls, cm_op, cm_self, cm_other, cm_res, cm_log>>
filterVars == <<fl_what, fl_attr, fl_value, fl_inc, fl_exc>>
evolveVars == <<ev_inst, ev_changes, ev_res>>
projVars == <<pj_inst, pj_recurse, pj_filter, pj_retain, pj_fn, pj_res>>

versionVars == <<vi_self, vi_other, vi_op, vi_res>>
optVars == <<ow_inner, ow_conv, ow_val, ow_res>>

vars == <<boolVars, pipeVars, defVars, cmpVars, filterVars, evolveVars, projVars,
          versionVars, optVars>>

-----------------------------------------------------------------------------
(* Bounds of the model.                                                    *)

\* the numbers of a version are 0 .. MaxVer
MaxVer == 1
\* strings over ShortAlphabet are enumerated up to this length
MaxStrLen == 2
\* integers are drawn from -MaxInt .. MaxInt
MaxInt == 2
\* the values wrapped for a comparison are 0 .. MaxCmpVal
MaxCmpVal == 1
\* the objects held by a projected field have at most this many nodes
MaxNodes == 3
\* a pipe is built from at most this many setters
MaxStages == 2
\* a default_if_none converter is called with None at most this many times
MaxCalls == 2

-----------------------------------------------------------------------------
(* Scalar Python values.  A str is the sequence of its characters.         *)

Val(kind, num, chars) == [k |-> kind, n |-> num, cs |-> chars]

NoneV == Val("none", 0, <<>>)
BoolV(b) == Val("bool", IF b THEN 1 ELSE 0, <<>>)
IntV(i) == Val("int", i, <<>>)
FloatV(i) == Val("float", i, <<>>)
StrV(chars) == Val("str", 0, chars)
\* a raised exception, named by its class
Raise(exc) == Val("raise", 0, <<exc>>)
\* no call made yet
Idle == Val("idle", 0, <<>>)

IsRaise(v) == v.k = "raise"

\* upper-case letter, lower-case letter
CasePairs ==
    { <<"T", "t">>, <<"R", "r">>, <<"U", "u">>, <<"E", "e">>, <<"Y", "y">>,
      <<"S", "s">>, <<"O", "o">>, <<"N", "n">>, <<"F", "f">>, <<"A", "a">>,
      <<"L", "l">>, <<"M", "m">>, <<"B", "b">> }

\* str.lower() on one character
LowerChar(c) ==
    IF \E p \in CasePairs : p[1] = c
    THEN (CHOOSE p \in CasePairs : p[1] = c)[2]
    ELSE c

\* str.lower()
Lower(chars) == [i \in 1..Len(chars) |-> LowerChar(chars[i])]

DigitChars == <<"0", "1", "2", "3", "4", "5", "6", "7", "8", "9">>

RECURSIVE NatStr(_)
\* str(n) for n >= 0
NatStr(n) ==
    IF n < 10 THEN <<DigitChars[n + 1]>>
    ELSE NatStr(n \div 10) \o <<DigitChars[(n % 10) + 1]>>

\* str(i) for an int
IntStr(i) == IF i < 0 THEN <<"-">> \o NatStr(-i) ELSE NatStr(i)

-----------------------------------------------------------------------------
(* converters.to_bool                                                      *)

TrueTokens ==
    { <<"t", "r", "u", "e">>, <<"t">>, <<"y", "e", "s">>, <<"y">>,
      <<"o", "n">>, <<"1">> }

FalseTokens ==
    { <<"f", "a", "l", "s", "e">>, <<"f">>, <<"n", "o">>, <<"n">>,
      <<"o", "f", "f">>, <<"0">> }

\* the mutant: the string is compared without lower()
to_bool_no_lower(val) ==
    IF val.k = "bool" THEN val
    ELSE IF val.k \in {"str", "int"}
    THEN LET s == IF val.k = "int" THEN IntStr(val.n) ELSE val.cs
         IN  IF s \in TrueTokens THEN BoolV(TRUE)
             ELSE IF s \in FalseTokens THEN BoolV(FALSE)
             ELSE Raise("ValueError")
    ELSE Raise("ValueError")

to_bool(val) ==
    IF val.k = "bool" THEN val
    ELSE IF val.k \in {"str", "int"}
    THEN LET s == Lower(IF val.k = "int" THEN IntStr(val.n) ELSE val.cs)
         IN  IF s \in TrueTokens THEN BoolV(TRUE)
             ELSE IF s \in FalseTokens THEN BoolV(FALSE)
             ELSE Raise("ValueError")
    ELSE Raise("ValueError")

\* the upper-case and lower-case forms of a character
BothCases(c) ==
    {c} \cup {p[1] : p \in {q \in CasePairs : q[2] = c}}
        \cup {p[2] : p \in {q \in CasePairs : q[1] = c}}

RECURSIVE CaseVariants(_)
\* every spelling of a string in upper and lower case
CaseVariants(chars) ==
    IF chars = <<>> THEN {<<>>}
    ELSE { <<c>> \o rest : c \in BothCases(Head(chars)),
                           rest \in CaseVariants(Tail(chars)) }

ShortAlphabet == {"y", "Y", "n", "N", "o", "f", "1", "0", "2", " "}

ShortStrings == UNION { [1..n -> ShortAlphabet] : n \in 0..MaxStrLen }

SampleStrings ==
    ShortStrings
    \cup UNION { CaseVariants(t) : t \in TrueTokens \cup FalseTokens }
    \cup CaseVariants(<<"m", "a", "y", "b", "e">>)
    \cup { <<"t", "r", "u">>, <<"y", "e", "s", "s">>, <<"o", "n", "e">>,
           <<"-", "1">>, <<"1", ".", "0">> }

Ints == (0 - MaxInt)..MaxInt

ToBoolInputs ==
    {BoolV(TRUE), BoolV(FALSE), NoneV}
    \cup {IntV(i) : i \in Ints}
    \cup {FloatV(i) : i \in 0..1}
    \cup {StrV(s) : s \in SampleStrings}

\* a call to_bool(val)
ToBool ==
    \E val \in ToBoolInputs :
        /\ tb_val' = val
        /\ tb_res' = to_bool(val)
        /\ UNCHANGED <<pipeVars, defVars, cmpVars, filterVars, evolveVars, projVars, versionVars, optVars>>

InitBool == tb_val = Idle /\ tb_res = Idle

-----------------------------------------------------------------------------
(* setters: pipe, frozen, validate, convert.  The instance argument is     *)
(* only handed on to the validator and is left out.                        *)

\* a call of fn with arg that returned or raised out
Call(fn, arg, out) == [fn |-> fn, arg |-> arg, out |-> out]

\* the validators and converters an attribute is declared with
Validators == {"None", "not_none"}
Converters == {"None", "to_bool"}

Attributes == [validator : Validators, converter : Converters]

\* a validator that rejects None (supplied by the caller)
not_none(value) == IF value = NoneV THEN Raise("ValidationError") ELSE NoneV

\* attrib.validator(instance, attrib, value)
CallValidator(attrib, value) == not_none(value)

\* attrib.converter(value)
CallConverter(attrib, value) == to_bool(value)

frozen(attrib, value) ==
    LET out == Raise("FrozenAttributeError")
    IN  [res |-> out, log |-> <<Call("frozen", value, out)>>]

validate(attrib, new_value) ==
    IF attrib.validator # "None"
    THEN LET v == CallValidator(attrib, new_value)
             out == IF IsRaise(v) THEN v ELSE new_value
         IN  [res |-> out,
              log |-> <<Call("validator", new_value, v),
                        Call("validate", new_value, out)>>]
    ELSE [res |-> new_value, log |-> <<Call("validate", new_value, new_value)>>]

convert(attrib, new_value) ==
    IF attrib.converter # "None"
    THEN LET out == CallConverter(attrib, new_value)
         IN  [res |-> out,
              log |-> <<Call("converter", new_value, out),
                        Call("convert", new_value, out)>>]
    ELSE [res |-> new_value, log |-> <<Call("convert", new_value, new_value)>>]

Setters == {"frozen", "validate", "convert"}

\* setter(instance, attribute, value)
CallSetter(setter, attrib, value) ==
    CASE setter = "frozen" -> frozen(attrib, value)
      [] setter = "validate" -> validate(attrib, value)
      [] setter = "convert" -> convert(attrib, value)

RECURSIVE pipe_setter_unthreaded(_, _, _, _)
\* the mutant: every setter is handed the value that was written
pipe_setter_unthreaded(setters, attribute, value, log) ==
    IF setters = <<>> THEN [res |-> value, log |-> log]
    ELSE LET r == CallSetter(Head(setters), attribute, value)
         IN  IF IsRaise(r.res) \/ Len(setters) = 1
             THEN [res |-> r.res, log |-> log \o r.log]
             ELSE pipe_setter_unthreaded(Tail(setters), attribute, value,
                                         log \o r.log)

RECURSIVE pipe_setter(_, _, _, _)
\* the loop of pipe_setter over the setters left; an exception ends it
pipe_setter(setters, attribute, value, log) ==
    IF setters = <<>> THEN [res |-> value, log |-> log]
    ELSE LET r == CallSetter(Head(setters), attribute, value)
         IN  IF IsRaise(r.res)
             THEN [res |-> r.res, log |-> log \o r.log]
             ELSE pipe_setter(Tail(setters), attribute, r.res, log \o r.log)

\* pipe(*setters) and one call of the pipe_setter it returns
pipe(setters, attribute, value) == pipe_setter(setters, attribute, value, <<>>)

Pipes == UNION { [1..n -> Setters] : n \in 0..MaxStages }

PipeValues ==
    { NoneV, BoolV(TRUE), IntV(0), IntV(MaxInt),
      StrV(<<"y", "e", "s">>), StrV(<<"N", "o">>),
      StrV(<<"m", "a", "y", "b", "e">>) }

\* one attribute write through pipe(*setters)
SetAttr ==
    \E setters \in Pipes, attribute \in Attributes, value \in PipeValues :
        LET r == pipe(setters, attribute, value)
        IN  /\ pp_setters' = setters
            /\ pp_attr' = attribute
            /\ pp_val' = value
            /\ pp_res' = r.res
            /\ pp_log' = r.log
            /\ UNCHANGED <<boolVars, defVars, cmpVars, filterVars, evolveVars, projVars, versionVars, optVars>>

InitPipe ==
    /\ pp_setters = <<>>
    /\ pp_attr = [validator |-> "None", converter |-> "None"]
    /\ pp_val = Idle
    /\ pp_res = Idle
    /\ pp_log = <<>>

-----------------------------------------------------------------------------
(* converters.default_if_none                                              *)

NOTHING == Val("NOTHING", 0, <<>>)
\* a callable taking no arguments, named
Callable(name) == Val("callable", 0, <<name>>)
\* attrs.Factory(factory, takes_self)
Factory(name, takes_self) == Val("Factory", IF takes_self THEN 1 ELSE 0, <<name>>)
\* the object the n-th call of a callable returns: a new one each call
Made(name, n) == Val("object", n, <<name>>)

FactoryNames == {"list", "dict"}

\* what default_if_none_converter does with None; made is the number of
\* calls of the factory so far
ConvertNone(conv, made) ==
    IF conv.factory # NoneV
    THEN [res |-> Made(conv.factory.cs[1], made + 1), calls |-> made + 1]
    ELSE [res |-> conv.default, calls |-> made]

\* the mutant: the factory is called once and its result kept
default_if_none_converter_cached(conv, value, made) ==
    IF value = NoneV
    THEN IF conv.factory # NoneV
         THEN [res |-> Made(conv.factory.cs[1], 1), calls |-> 1]
         ELSE [res |-> conv.default, calls |-> made]
    ELSE [res |-> value, calls |-> made]

default_if_none_converter(conv, value, made) ==
    IF value = NoneV
    THEN ConvertNone(conv, made)
    ELSE [res |-> value, calls |-> made]

\* the closure default_if_none returns: the default and factory it captured
Closure(default, factory) == [k |-> "converter", default |-> default, factory |-> factory]

default_if_none(default, factory) ==
    IF default = NOTHING /\ factory = NoneV
    THEN Raise("TypeError")
    ELSE IF default # NOTHING /\ factory # NoneV
    THEN Raise("TypeError")
    ELSE IF default.k = "Factory"
    THEN IF default.n = 1
         THEN Raise("ValueError")
         ELSE Closure(NOTHING, Callable(default.cs[1]))
    ELSE Closure(default, factory)

Defaults ==
    {NOTHING, NoneV, IntV(0), StrV(<<"n", "o">>)}
    \cup {Factory(f, t) : f \in FactoryNames, t \in BOOLEAN}

Factories == {NoneV} \cup {Callable(f) : f \in FactoryNames}

DefaultValues == {NoneV, IntV(0), IntV(1), BoolV(FALSE), StrV(<<>>), StrV(<<"y">>)}

\* a call default_if_none(default, factory)
DefaultIfNone ==
    \E default \in Defaults, factory \in Factories :
        /\ df_args' = <<default, factory>>
        /\ df_conv' = default_if_none(default, factory)
        /\ df_val' = Idle
        /\ df_res' = Idle
        /\ df_nones' = 0
        /\ df_calls' = 0
        /\ UNCHANGED <<boolVars, pipeVars, cmpVars, filterVars, evolveVars, projVars, versionVars, optVars>>

\* a call of the converter default_if_none returned
DefaultConvert ==
    \E value \in DefaultValues :
        /\ df_conv.k = "converter"
        /\ df_nones < MaxCalls
        /\ LET r == default_if_none_converter(df_conv, value, df_calls)
           IN  /\ df_val' = value
               /\ df_res' = r.res
               /\ df_calls' = r.calls
               /\ df_nones' = IF value = NoneV THEN df_nones + 1 ELSE df_nones
        /\ UNCHANGED <<df_args, df_conv, boolVars, pipeVars, cmpVars, filterVars, evolveVars, projVars, versionVars, optVars>>

InitDefault ==
    /\ df_args = <<NOTHING, NoneV>>
    /\ df_conv = Idle
    /\ df_val = Idle
    /\ df_res = Idle
    /\ df_nones = 0
    /\ df_calls = 0

-----------------------------------------------------------------------------
(* _cmp.cmp_using                                                          *)

NotImplemented == Val("NotImplemented", 0, <<>>)

\* the keyword of cmp_using that supplies each comparison method
Slots == {"eq", "lt", "le", "gt", "ge"}

MethodOf(slot) == "__" \o slot \o "__"

\* the predicates a caller passes: the operators of the same names, and
\* succ, which holds of (a, b) when a = b + 1
Predicates == Slots \cup {"succ"}

\* op(a, b) for a predicate of the caller
Apply(op, a, b) ==
    CASE op = "eq" -> a = b
      [] op = "lt" -> a < b
      [] op = "le" -> a <= b
      [] op = "gt" -> a > b
      [] op = "ge" -> a >= b
      [] op = "succ" -> a = b + 1

\* an object: its type and, when it has one, its value attribute
Object(type, has_value, value) == [type |-> type, has_value |-> has_value, value |-> value]

\* a call op(a, b) of a predicate of the caller
PredCall(op, a, b) == [op |-> op, a |-> a, b |-> b]

\* the mutant: the operands' types are not compared
method_unchecked(cls, op, self, other) ==
    IF ~other.has_value
    THEN [res |-> Raise("AttributeError"), log |-> <<>>]
    ELSE [res |-> BoolV(Apply(op, self.value, other.value)),
          log |-> <<PredCall(op, self.value, other.value)>>]

\* the mutant: the predicate is handed the operands the other way round
method_swapped(cls, op, self, other) ==
    IF cls.require_same_type /\ self.type # other.type
    THEN [res |-> NotImplemented, log |-> <<>>]
    ELSE IF ~other.has_value
    THEN [res |-> Raise("AttributeError"), log |-> <<>>]
    ELSE [res |-> BoolV(Apply(op, other.value, self.value)),
          log |-> <<PredCall(op, other.value, self.value)>>]

\* the method _make_method(name, op) returns, called on (self, other)
method(cls, op, self, other) ==
    IF cls.require_same_type /\ self.type # other.type
    THEN [res |-> NotImplemented, log |-> <<>>]
    ELSE IF ~other.has_value
    THEN [res |-> Raise("AttributeError"), log |-> <<>>]
    ELSE [res |-> BoolV(Apply(op, self.value, other.value)),
          log |-> <<PredCall(op, self.value, other.value)>>]

\* the __ne__ of _make_ne(): what __eq__ returns, negated, NotImplemented
\* handed on
make_ne(cls, self, other) ==
    LET r == method(cls, cls.body["__eq__"], self, other)
    IN  IF r.res.k = "bool"
        THEN [res |-> BoolV(r.res.n = 0), log |-> r.log]
        ELSE r

\* the body cmp_using builds the class from: each method's name and the
\* predicate behind it ("_make_ne" for __ne__)
Body(args) ==
    LET given == {slot \in Slots : args[slot] # "None"}
        names == {"__init__"} \cup {MethodOf(slot) : slot \in given}
                 \cup (IF "eq" \in given THEN {"__ne__"} ELSE {})
    IN  [name \in names |->
            IF name = "__init__" THEN "_make_init"
            ELSE IF name = "__ne__" THEN "_make_ne"
            ELSE args[CHOOSE slot \in given : MethodOf(slot) = name]]

\* cmp_using(eq, lt, le, gt, ge, require_same_type): the class
cmp_using(args, require_same_type) ==
    [body |-> Body(args), require_same_type |-> require_same_type]

\* each keyword is None or the operator of its name; eq and lt may also be
\* succ
CmpArgs == { a \in [Slots -> Predicates \cup {"None"}] :
               \A slot \in Slots :
                  \/ a[slot] \in {"None", slot}
                  \/ a[slot] = "succ" /\ slot \in {"eq", "lt"} }

CmpValues == 0..MaxCmpVal

\* instances of the class ("Comparable"), instances of a class of another
\* cmp_using call ("Other"), and ints, which have no value attribute
Operands ==
    {Object(t, TRUE, v) : t \in {"Comparable", "Other"}, v \in CmpValues}
    \cup {Object("int", FALSE, v) : v \in CmpValues}

\* a call cmp_using(...)
CmpUsing ==
    \E args \in CmpArgs, require_same_type \in BOOLEAN :
        /\ cm_cls' = cmp_using(args, require_same_type)
        /\ cm_op' = ""
        /\ cm_self' = Object("Comparable", TRUE, 0)
        /\ cm_other' = Object("Comparable", TRUE, 0)
        /\ cm_res' = Idle
        /\ cm_log' = <<>>
        /\ UNCHANGED <<boolVars, pipeVars, defVars, filterVars, evolveVars, projVars, versionVars, optVars>>

\* a call of one comparison method of the class on one of its instances
Compare ==
    \E name \in DOMAIN cm_cls.body \ {"__init__"}, v \in CmpValues,
       other \in Operands :
        LET self == Object("Comparable", TRUE, v)
            r == IF name = "__ne__" THEN make_ne(cm_cls, self, other)
                 ELSE method(cm_cls, cm_cls.body[name], self, other)
        IN  /\ cm_op' = name
            /\ cm_self' = self
            /\ cm_other' = other
            /\ cm_res' = r.res
            /\ cm_log' = r.log
            /\ UNCHANGED <<cm_cls, boolVars, pipeVars, defVars, filterVars, evolveVars, projVars, versionVars, optVars>>

InitCmp ==
    /\ cm_cls = cmp_using([slot \in Slots |-> "None"], TRUE)
    /\ cm_op = ""
    /\ cm_self = Object("Comparable", TRUE, 0)
    /\ cm_other = Object("Comparable", TRUE, 0)
    /\ cm_res = Idle
    /\ cm_log = <<>>

-----------------------------------------------------------------------------
(* filters: include, exclude                                               *)

\* an attrs.Attribute: the metadata of one field.  Two Attributes are equal
\* when their metadata are.
Attribute(name, type, init, converter) ==
    [name |-> name, type |-> type, init |-> init, converter |-> converter]

\* what a filter is built from: a field name (a str), a class, an Attribute
NameSel(name) == [sel |-> "name", name |-> name, attr |-> <<>>]
TypeSel(cls) == [sel |-> "type", name |-> cls, attr |-> <<>>]
AttrSel(attribute) == [sel |-> "attribute", name |-> "", attr |-> <<attribute>>]

\* _split_what(what): the classes, and everything else
split_what(what) ==
    [classes |-> {w \in what : w.sel = "type"},
     attributes |-> {w \in what : w.sel # "type"}]

\* attribute.__class__: every field's metadata is an attrs.Attribute
ClassOfAttribute(attribute) == "Attribute"

include_filter(what, attribute, value) ==
    LET split == split_what(what)
    IN  \/ NameSel(attribute.name) \in split.attributes
        \/ TypeSel(ClassOfAttribute(attribute)) \in split.classes
        \/ AttrSel(attribute) \in split.attributes

\* the mutant: an Attribute among the selectors is not looked for
exclude_filter_names_only(what, attribute, value) ==
    LET split == split_what(what)
    IN  ~ \/ NameSel(attribute.name) \in split.attributes
          \/ TypeSel(ClassOfAttribute(attribute)) \in split.classes

exclude_filter(what, attribute, value) ==
    LET split == split_what(what)
    IN  ~ \/ NameSel(attribute.name) \in split.attributes
          \/ TypeSel(ClassOfAttribute(attribute)) \in split.classes
          \/ AttrSel(attribute) \in split.attributes

\* the fields the filters are tried on: x and y of one class, and the x of
\* another, declared with another type
FilterAttributes ==
    { Attribute("x", "int", TRUE, "None"), Attribute("y", "str", TRUE, "None"),
      Attribute("x", "str", TRUE, "None") }

Selectors ==
    {NameSel(n) : n \in {"x", "y"}}
    \cup {TypeSel(c) : c \in {"int", "str", "Attribute"}}
    \cup {AttrSel(a) : a \in FilterAttributes}

FilterValues == {IntV(1), StrV(<<"a">>), NoneV}

\* include(*what) and exclude(*what), and a call of each filter on the same
\* (attribute, value)
Filter ==
    /\ fl_inc = Idle
    /\ fl_inc' = BoolV(include_filter(fl_what, fl_attr, fl_value))
    /\ fl_exc' = BoolV(exclude_filter(fl_what, fl_attr, fl_value))
    /\ UNCHANGED <<fl_what, fl_attr, fl_value>>
    /\ UNCHANGED <<boolVars, pipeVars, defVars, cmpVars, evolveVars, projVars, versionVars, optVars>>

\* no filter built
InitFilter ==
    /\ fl_what = {}
    /\ fl_attr = Attribute("x", "int", TRUE, "None")
    /\ fl_value = NoneV
    /\ fl_inc = Idle
    /\ fl_exc = Idle

\* the selectors, the attribute and the value of the call to come
FilterInputs ==
    /\ fl_what \in SUBSET Selectors
    /\ fl_attr \in FilterAttributes
    /\ fl_value \in FilterValues
    /\ fl_inc = Idle
    /\ fl_exc = Idle

-----------------------------------------------------------------------------
(* _funcs.evolve.  The classes are made by the Field Registry (_make.py),  *)
(* which is not part of these sources: fields() and the initializer are    *)
(* modelled as the specification describes them.                           *)

\* a class with attrs attributes: fields(cls) in declared order
Class(name, attributes) == [name |-> name, fields |-> attributes]

\* an instance: its class and the value of each of its fields
Instance(cls, vals) == [k |-> "instance", cls |-> cls, vals |-> vals]

\* fields(cls)
fields(cls) == cls.fields

\* has(cls)
has(obj) == obj.k = "instance"

FieldNames(cls) == {fields(cls)[i].name : i \in 1..Len(fields(cls))}

\* the names of the fields with init=True
InitNames(cls) ==
    {fields(cls)[i].name : i \in {j \in 1..Len(fields(cls)) : fields(cls)[j].init}}

FieldNamed(cls, name) ==
    fields(cls)[CHOOSE i \in 1..Len(fields(cls)) : fields(cls)[i].name = name]

\* what the initializer stores for one init field: the argument, run through
\* the field's converter when it has one
Converted(attribute, value) ==
    IF attribute.converter = "to_bool" THEN to_bool(value) ELSE value

\* cls(**kwargs): the generated initializer.  It takes the init fields by
\* name, runs the converters in field order, and leaves the other fields at
\* their default (None here).
initializer(cls, kwargs) ==
    IF DOMAIN kwargs # InitNames(cls)
    THEN Raise("TypeError")
    ELSE LET stored == [name \in FieldNames(cls) |->
                          IF name \in InitNames(cls)
                          THEN Converted(FieldNamed(cls, name), kwargs[name])
                          ELSE NoneV]
             failed == {i \in 1..Len(fields(cls)) : IsRaise(stored[fields(cls)[i].name])}
         IN  IF failed # {}
             THEN stored[fields(cls)[CHOOSE i \in failed : \A j \in failed : i <= j].name]
             ELSE Instance(cls, stored)

\* the mutant: the changes left over after the init fields are dropped
evolve_drops_unknown(inst, changes) ==
    IF ~has(inst)
    THEN Raise("NameError")
    ELSE LET cls == inst.cls
             new_values == [name \in InitNames(cls) |->
                              IF name \in DOMAIN changes
                              THEN changes[name]
                              ELSE inst.vals[name]]
         IN  initializer(cls, new_values)

\* evolve(inst, **changes).  NotAnAttrsClassError is not imported by
\* _funcs.py, so the raise for an object that is no instance is a NameError.
evolve(inst, changes) ==
    IF ~has(inst)
    THEN Raise("NameError")
    ELSE LET cls == inst.cls
             new_values == [name \in InitNames(cls) |->
                              IF name \in DOMAIN changes
                              THEN changes[name]
                              ELSE inst.vals[name]]
             left == DOMAIN changes \ InitNames(cls)
         IN  IF left # {}
             THEN Raise("TypeError")
             ELSE initializer(cls, new_values)

\* the classes evolve is tried on: two fields, a always init, b init or
\* not, each with or without the to_bool converter
EvolveClasses ==
    { Class("C", << Attribute("a", "bool", TRUE, ca),
                   Attribute("b", "bool", ib, cb) >>) :
        ca \in Converters, ib \in BOOLEAN, cb \in Converters }

EvolveValues == {IntV(0), StrV(<<"y", "e", "s">>), StrV(<<"m", "a", "y", "b", "e">>)}

\* the keywords of a change set: the fields, and a name no field has
ChangeNames == {"a", "b", "zz"}

EvolveInstances ==
    { Instance(cls, vals) : cls \in EvolveClasses, vals \in [{"a", "b"} -> EvolveValues] }

\* a call evolve(inst, **changes)
Evolve ==
    /\ ev_res = Idle
    /\ ev_res' = evolve(ev_inst, ev_changes)
    /\ UNCHANGED <<ev_inst, ev_changes>>
    /\ UNCHANGED <<boolVars, pipeVars, defVars, cmpVars, filterVars, projVars, versionVars, optVars>>

\* no call of evolve
InitEvolve ==
    /\ ev_inst = NoneV
    /\ ev_changes = <<>>
    /\ ev_res = Idle

\* the instance and the changes of the call to come
EvolveInputs ==
    /\ ev_inst \in EvolveInstances \cup {IntV(0)}
    /\ ev_changes \in UNION { [names -> EvolveValues] : names \in SUBSET ChangeNames }
    /\ ev_res = Idle

-----------------------------------------------------------------------------
(* _funcs.asdict, _asdict_anything, astuple.  The objects they walk are    *)
(* trees: ints and strs, the collections list, tuple, set and frozenset    *)
(* (items in iteration order), dicts (items are its (key, value) pairs in  *)
(* insertion order) and instances of classes with attrs attributes (items  *)
(* are the values of the fields in declared order).  dict_factory is dict, *)
(* tuple_factory is tuple and value_serializer is None.                    *)

Obj(kind, num, str, items) == [k |-> kind, n |-> num, s |-> str, items |-> items]

PInt(i) == Obj("int", i, "", <<>>)
PStr(str) == Obj("str", 0, str, <<>>)
PColl(kind, items) == Obj(kind, 0, "", items)
PPair(key, value) == Obj("pair", 0, "", <<key, value>>)
PDict(pairs) == Obj("dict", 0, "", pairs)
PInst(cls, values) == Obj("instance", 0, cls, values)
PRaise(exc) == Obj("raise", 0, exc, <<>>)
PIdle == Obj("idle", 0, "", <<>>)

Collections == {"tuple", "list", "set", "frozenset"}

\* the class the projected instances are of, as define makes it by default:
\* its instances compare by value and so cannot be hashed
Point ==
    Class("Point", << Attribute("x", "int", TRUE, "None"),
                     Attribute("y", "int", TRUE, "None") >>)

\* inst.__class__
ClassOf(inst) == Point

\* getattr(inst, a.name) for the i-th field
GetAttr(inst, i) == inst.items[i]

RECURSIVE Hashable(_)
\* whether hash(obj) succeeds
Hashable(obj) ==
    CASE obj.k \in {"int", "str", "frozenset"} -> TRUE
      [] obj.k = "tuple" -> \A i \in 1..Len(obj.items) : Hashable(obj.items[i])
      [] OTHER -> FALSE

\* the first exception among the results of a sequence of calls, if any
FirstRaise(results) ==
    LET raised == {i \in 1..Len(results) : results[i].k = "raise"}
    IN  IF raised = {} THEN PIdle
        ELSE results[CHOOSE i \in raised : \A j \in raised : i <= j]

RECURSIVE Dedupe(_)
\* the items of a set built from a sequence: the first of equal ones stays
Dedupe(items) ==
    IF items = <<>> THEN <<>>
    ELSE LET front == Dedupe(SubSeq(items, 1, Len(items) - 1))
             last == items[Len(items)]
         IN  IF \E i \in 1..Len(front) : front[i] = last
             THEN front
             ELSE Append(front, last)

\* cf(items) for a collection type cf
MakeCollection(cf, items) ==
    IF cf \in {"list", "tuple"} THEN PColl(cf, items)
    ELSE IF \E i \in 1..Len(items) : ~Hashable(items[i])
    THEN PRaise("TypeError")
    ELSE PColl(cf, Dedupe(items))

RECURSIVE DedupeKeys(_)
\* the pairs of a dict built from a sequence of pairs: a key keeps its first
\* place and takes its last value
DedupeKeys(pairs) ==
    IF pairs = <<>> THEN <<>>
    ELSE LET front == DedupeKeys(SubSeq(pairs, 1, Len(pairs) - 1))
             last == pairs[Len(pairs)]
         IN  IF \E i \in 1..Len(front) : front[i].items[1] = last.items[1]
             THEN [i \in 1..Len(front) |->
                     IF front[i].items[1] = last.items[1] THEN last ELSE front[i]]
             ELSE Append(front, last)

\* dict_factory(pairs) with dict_factory = dict
MakeDict(pairs) ==
    IF \E i \in 1..Len(pairs) : ~Hashable(pairs[i].items[1])
    THEN PRaise("TypeError")
    ELSE PDict(DedupeKeys(pairs))

\* a filter argument: None, include(*what) or exclude(*what)
FilterArg(mode, what) == [mode |-> mode, what |-> what]

\* filter(a, v)
CallFilter(filter, a, v) ==
    IF filter.mode = "include" THEN include_filter(filter.what, a, v)
    ELSE exclude_filter(filter.what, a, v)

\* the fields asdict and astuple go on with: filter is None or accepts
Kept(inst, filter) ==
    SelectSeq([i \in 1..Len(fields(ClassOf(inst))) |-> i],
              LAMBDA i : filter.mode = "None"
                         \/ CallFilter(filter, fields(ClassOf(inst))[i], GetAttr(inst, i)))

RECURSIVE asdict(_, _, _, _)
RECURSIVE asdict_anything(_, _, _, _)
RECURSIVE asdict_anything_list(_, _, _, _)

\* the mutant: retain_collection_types is not looked at
asdict_anything_list(val, recurse, filter, retain_collection_types) ==
    IF val.k = "dict"
    THEN LET pairs == [i \in 1..Len(val.items) |->
                         PPair(asdict_anything(val.items[i].items[1], recurse, filter,
                                               retain_collection_types),
                               asdict_anything(val.items[i].items[2], recurse, filter,
                                               retain_collection_types))]
             flat == [i \in 1..(2 * Len(pairs)) |-> pairs[(i + 1) \div 2].items[2 - (i % 2)]]
         IN  IF FirstRaise(flat) # PIdle THEN FirstRaise(flat) ELSE MakeDict(pairs)
    ELSE IF val.k \in Collections
    THEN LET items == [i \in 1..Len(val.items) |->
                         asdict_anything(val.items[i], recurse, filter,
                                         retain_collection_types)]
         IN  IF FirstRaise(items) # PIdle THEN FirstRaise(items)
             ELSE MakeCollection("list", items)
    ELSE IF has(val)
    THEN asdict(val, recurse, filter, retain_collection_types)
    ELSE val

\* _asdict_anything(val, ...)
asdict_anything(val, recurse, filter, retain_collection_types) ==
    IF val.k = "dict"
    THEN LET pairs == [i \in 1..Len(val.items) |->
                         PPair(asdict_anything(val.items[i].items[1], recurse, filter,
                                               retain_collection_types),
                               asdict_anything(val.items[i].items[2], recurse, filter,
                                               retain_collection_types))]
             flat == [i \in 1..(2 * Len(pairs)) |-> pairs[(i + 1) \div 2].items[2 - (i % 2)]]
         IN  IF FirstRaise(flat) # PIdle THEN FirstRaise(flat) ELSE MakeDict(pairs)
    ELSE IF val.k \in Collections
    THEN LET cf == IF retain_collection_types THEN val.k ELSE "list"
             items == [i \in 1..Len(val.items) |->
                         asdict_anything(val.items[i], recurse, filter,
                                         retain_collection_types)]
         IN  IF FirstRaise(items) # PIdle THEN FirstRaise(items)
             ELSE MakeCollection(cf, items)
    ELSE IF has(val)
    THEN asdict(val, recurse, filter, retain_collection_types)
    ELSE val

\* the value asdict stores for a field it keeps
asdict_value(v, recurse, filter, retain_collection_types) ==
    IF recurse
    THEN IF has(v)
         THEN asdict(v, TRUE, filter, retain_collection_types)
         ELSE IF v.k \in Collections
         THEN asdict_anything(v, recurse, filter, retain_collection_types)
         ELSE v
    ELSE v

\* asdict(inst, recurse, filter, dict, retain_collection_types, None)
asdict(inst, recurse, filter, retain_collection_types) ==
    LET attrs == fields(ClassOf(inst))
        kept == Kept(inst, filter)
        rv == [j \in 1..Len(kept) |->
                 PPair(PStr(attrs[kept[j]].name),
                       asdict_value(GetAttr(inst, kept[j]), recurse, filter,
                                    retain_collection_types))]
        values == [j \in 1..Len(kept) |-> rv[j].items[2]]
    IN  IF FirstRaise(values) # PIdle THEN FirstRaise(values) ELSE PDict(rv)

\* _astuple_anything(val, ...): _funcs.py defines no such name, and the call
\* raises NameError
astuple_anything(val, recurse, filter, retain_collection_types) ==
    PRaise("NameError")

RECURSIVE astuple(_, _, _, _)
\* astuple(inst, recurse, filter, tuple, retain_collection_types)
astuple(inst, recurse, filter, retain_collection_types) ==
    LET kept == Kept(inst, filter)
        rv == [j \in 1..Len(kept) |->
                 LET v == GetAttr(inst, kept[j])
                 IN  IF recurse
                     THEN IF has(v)
                          THEN astuple(v, TRUE, filter, retain_collection_types)
                          ELSE IF v.k \in Collections \cup {"dict"}
                          THEN astuple_anything(v, recurse, filter,
                                                retain_collection_types)
                          ELSE v
                     ELSE v]
    IN  IF FirstRaise(rv) # PIdle THEN FirstRaise(rv) ELSE PColl("tuple", rv)

\* the ints and strs at the leaves
Leaves == {PInt(1), PStr("a")}

RECURSIVE Size(_)
\* the number of objects in a tree
Size(obj) ==
    IF obj.k = "dict"
    THEN 1 + Size(PColl("list", [i \in 1..(2 * Len(obj.items)) |->
                                   obj.items[(i + 1) \div 2].items[2 - (i % 2)]])) - 1
    ELSE IF obj.items = <<>> THEN 1
    ELSE Size(obj.items[1]) + Size(Obj(obj.k, 0, "", Tail(obj.items)))

\* whether no two items of a sequence are equal
Distinct(items) == \A i, j \in 1..Len(items) : items[i] = items[j] => i = j

RECURSIVE Universe(_)
RECURSIVE ObjSeqs(_)

\* the sequences of objects with at most n nodes in all
ObjSeqs(n) ==
    {<<>>} \cup UNION { { <<obj>> \o rest : rest \in ObjSeqs(n - Size(obj)) } :
                          obj \in Universe(n) }

\* the objects of at most n nodes: what Python lets one build (the items of
\* a set and the keys of a dict are hashable and distinct)
Universe(n) ==
    IF n <= 0 THEN {}
    ELSE LET seqs == ObjSeqs(n - 1)
         IN  Leaves
             \cup {PColl(kind, items) : kind \in {"list", "tuple"}, items \in seqs}
             \cup {PColl(kind, items) : kind \in {"set", "frozenset"},
                      items \in {q \in seqs : Distinct(q)
                                     /\ \A i \in 1..Len(q) : Hashable(q[i])}}
             \cup {PDict([i \in 1..(Len(q) \div 2) |-> PPair(q[2 * i - 1], q[2 * i])]) :
                      q \in {r \in seqs :
                                /\ Len(r) % 2 = 0
                                /\ \A i \in 1..(Len(r) \div 2) : Hashable(r[2 * i - 1])
                                /\ Distinct([i \in 1..(Len(r) \div 2) |-> r[2 * i - 1]])}}
             \cup {PInst("Point", items) : items \in {q \in seqs : Len(q) = 2}}

\* the dicts of one entry whose value is a record
RecordDicts ==
    {PDict(<<PPair(key, PInst("Point", <<x, y>>))>>) :
        key \in Leaves, x \in Leaves, y \in Leaves}

\* the lists and tuples that hold a dict of one entry whose key is a tuple
TupleKeyed ==
    {PColl(kind, <<PDict(<<PPair(PColl("tuple", items), value)>>)>>) :
        kind \in {"list", "tuple"}, items \in {<<>>, <<PInt(1)>>}, value \in Leaves}

\* the instances projected: a Point whose x is an int or a str and whose y
\* is any object of at most MaxNodes nodes, a dict that holds a record, or
\* a collection that holds a dict keyed by a tuple
ProjInstances ==
    {PInst("Point", <<x, y>>) :
        x \in Leaves, y \in Universe(MaxNodes) \cup RecordDicts \cup TupleKeyed}

\* the filters passed: None, and include and exclude of field names
FilterArgs ==
    {FilterArg("None", {})}
    \cup {FilterArg(mode, {NameSel(name)}) :
            mode \in {"include", "exclude"}, name \in {"x", "y"}}

\* a call asdict(inst, recurse, filter, dict, retain_collection_types)
AsDict ==
    /\ pj_fn = ""
    /\ pj_fn' = "asdict"
    /\ pj_res' = asdict(pj_inst, pj_recurse, pj_filter, pj_retain)
    /\ UNCHANGED <<pj_inst, pj_recurse, pj_filter, pj_retain>>
    /\ UNCHANGED <<boolVars, pipeVars, defVars, cmpVars, filterVars, evolveVars, versionVars, optVars>>

\* a call astuple(inst, recurse, filter, tuple, retain_collection_types)
AsTuple ==
    /\ pj_fn = ""
    /\ pj_fn' = "astuple"
    /\ pj_res' = astuple(pj_inst, pj_recurse, pj_filter, pj_retain)
    /\ UNCHANGED <<pj_inst, pj_recurse, pj_filter, pj_retain>>
    /\ UNCHANGED <<boolVars, pipeVars, defVars, cmpVars, filterVars, evolveVars, versionVars, optVars>>

\* no projection called
InitProject ==
    /\ pj_inst = PInst("Point", <<PInt(1), PInt(1)>>)
    /\ pj_recurse = TRUE
    /\ pj_filter = FilterArg("None", {})
    /\ pj_retain = FALSE
    /\ pj_fn = ""
    /\ pj_res = PIdle

\* the arguments of the call to come
ProjectInputs ==
    /\ pj_inst \in ProjInstances
    /\ pj_recurse \in BOOLEAN
    /\ pj_filter \in FilterArgs
    /\ pj_retain \in BOOLEAN
    /\ pj_fn = ""
    /\ pj_res = PIdle

-----------------------------------------------------------------------------
(* _version_info.VersionInfo.  A tuple is the sequence of its items; the   *)
(* class is decorated with functools.total_ordering, which derives         *)
(* __le__, __gt__ and __ge__ from __lt__ and __eq__.                       *)

\* a tuple
Tuple(items) == [k |-> "tuple", items |-> items]

VersionInfo(year, minor, micro, releaselevel) ==
    [year |-> year, minor |-> minor, micro |-> micro, releaselevel |-> releaselevel]

\* the letters, in code point order
Letters ==
    <<"a", "b", "c", "d", "e", "f", "g", "h", "i", "j", "k", "l", "m",
      "n", "o", "p", "q", "r", "s", "t", "u", "v", "w", "x", "y", "z">>

Ord(c) == CHOOSE i \in 1..Len(Letters) : Letters[i] = c

\* str < str
StrLt(a, b) ==
    \/ \E i \in 1..Len(a) :
          /\ i <= Len(b)
          /\ SubSeq(a, 1, i - 1) = SubSeq(b, 1, i - 1)
          /\ Ord(a[i]) < Ord(b[i])
    \/ Len(a) < Len(b) /\ a = SubSeq(b, 1, Len(a))

\* x < y for two items of a tuple
ItemLt(x, y) ==
    CASE x.k = "int" /\ y.k = "int" -> BoolV(x.n < y.n)
      [] x.k = "str" /\ y.k = "str" -> BoolV(StrLt(x.cs, y.cs))
      [] OTHER -> Raise("TypeError")

\* tuple == tuple
TupleEq(a, b) == a = b

\* tuple < tuple: the first items that differ decide, then the lengths
TupleLt(a, b) ==
    LET differ == {i \in 1..Len(a) : i <= Len(b) /\ a[i] # b[i]}
    IN  IF differ = {}
        THEN BoolV(Len(a) < Len(b))
        ELSE LET i == CHOOSE j \in differ : \A h \in differ : j <= h
             IN  ItemLt(a[i], b[i])

ensure_tuple(self, other) ==
    IF other.k # "tuple"
    THEN Raise("NotImplementedError")
    ELSE IF Len(other.items) > 4
    THEN Raise("ValueError")
    ELSE LET self_tuple == <<self.year, self.minor, self.micro, self.releaselevel>>
             other_tuple == other.items \o [i \in 1..(4 - Len(other.items)) |-> NoneV]
         IN  [k |-> "pair",
              us |-> SubSeq(self_tuple, 1, Len(other.items)),
              them |-> other_tuple]

\* VersionInfo.__eq__
version_eq(self, other) ==
    LET r == ensure_tuple(self, other)
    IN  IF r = Raise("NotImplementedError") THEN NotImplemented
        ELSE IF r.k = "raise" THEN r
        ELSE BoolV(TupleEq(r.us, r.them))

\* VersionInfo.__lt__
version_lt(self, other) ==
    LET r == ensure_tuple(self, other)
    IN  IF r = Raise("NotImplementedError") THEN NotImplemented
        ELSE IF r.k = "raise" THEN r
        ELSE TupleLt(r.us, r.them)

\* object.__ne__: the inverse of __eq__ unless that is NotImplemented
version_ne(self, other) ==
    LET r == version_eq(self, other)
    IN  IF r.k = "bool" THEN BoolV(r.n = 0) ELSE r

\* the methods total_ordering adds: _le_from_lt, _gt_from_lt, _ge_from_lt
total_ordering(op, self, other) ==
    LET op_result == version_lt(self, other)
    IN  IF op_result.k # "bool" THEN op_result
        ELSE CASE op = "__le__" ->
                    IF op_result.n = 1 THEN op_result ELSE version_eq(self, other)
               [] op = "__gt__" ->
                    IF op_result.n = 1 THEN BoolV(FALSE) ELSE version_ne(self, other)
               [] op = "__ge__" -> BoolV(op_result.n = 0)

VersionMethods == {"__eq__", "__ne__", "__lt__", "__le__", "__gt__", "__ge__"}

\* the expression self <op> other: the method of VersionInfo, and when it
\* answers NotImplemented the fallback of the interpreter (other is a tuple
\* or an int, whose reflected method answers NotImplemented too)
VersionOperator(op, self, other) ==
    LET r == CASE op = "__eq__" -> version_eq(self, other)
               [] op = "__ne__" -> version_ne(self, other)
               [] op = "__lt__" -> version_lt(self, other)
               [] OTHER -> total_ordering(op, self, other)
    IN  IF r # NotImplemented THEN r
        ELSE CASE op = "__eq__" -> BoolV(FALSE)
               [] op = "__ne__" -> BoolV(TRUE)
               [] OTHER -> Raise("TypeError")

VersionNumbers == {IntV(i) : i \in 0..MaxVer}

ReleaseLevels == {StrV(<<"d", "e", "v">>), StrV(<<"f", "i", "n", "a", "l">>)}

VersionInfos ==
    {VersionInfo(y, mi, mc, rl) :
        y \in VersionNumbers, mi \in VersionNumbers, mc \in VersionNumbers,
        rl \in ReleaseLevels}

\* the items a tuple compared to a VersionInfo holds at position i
ItemsAt(i) == IF i = 4 THEN ReleaseLevels ELSE VersionNumbers

\* the tuples of 0 to 5 items
VersionTuples ==
    {Tuple(items) : items \in
        UNION {{s \in [1..n -> VersionNumbers \cup ReleaseLevels] :
                    \A i \in 1..n : s[i] \in ItemsAt(i)} : n \in 0..5}}

\* a comparison self <op> other
VersionCompare ==
    /\ vi_op = ""
    /\ \E op \in VersionMethods :
        /\ vi_op' = op
        /\ vi_res' = VersionOperator(op, vi_self, vi_other)
    /\ UNCHANGED <<vi_self, vi_other>>
    /\ UNCHANGED <<boolVars, pipeVars, defVars, cmpVars, filterVars, evolveVars, projVars, optVars>>

\* no comparison made
InitVersion ==
    /\ vi_self = VersionInfo(IntV(0), IntV(0), IntV(0), StrV(<<"f", "i", "n", "a", "l">>))
    /\ vi_other = Tuple(<<>>)
    /\ vi_op = ""
    /\ vi_res = Idle

\* the operands of the comparison to come
VersionInputs ==
    /\ vi_self \in VersionInfos
    /\ vi_other \in VersionTuples \cup {IntV(0)}
    /\ vi_op = ""
    /\ vi_res = Idle

-----------------------------------------------------------------------------
(* converters.optional and _compat._AnnotationExtractor.  A converter is   *)
(* a callable: what it computes and the annotations of its signature.  A   *)
(* function's __annotations__ is the set of its (name, type) pairs.        *)

\* no annotation: inspect.Parameter.empty, inspect.Signature.empty
Empty == "empty"

\* a callable of one parameter with the annotations first and ret
Converter(fn, first, ret) == [fn |-> fn, first |-> first, ret |-> ret]

\* typing.Optional[t]
Optional(t) == <<"Optional", t>>

\* _AnnotationExtractor(callable).get_first_param_type()
get_first_param_type(callable) ==
    IF callable.first # Empty THEN callable.first ELSE "None"

\* _AnnotationExtractor(callable).get_return_type()
get_return_type(callable) ==
    IF callable.ret # Empty THEN callable.ret ELSE "None"

\* fn(value) for the callables that are wrapped: to_bool, and neg, a
\* converter of the caller that returns -value
CallInner(fn, value) ==
    CASE fn = "to_bool" -> to_bool(value)
      [] fn = "neg" ->
            IF value.k \in {"int", "bool"} THEN IntV(-value.n) ELSE Raise("TypeError")

\* the closure optional returns: def optional_converter(value), which has
\* no annotations
optional(converter) ==
    [fn |-> "optional_converter", converter |-> converter,
     annotations |-> {}]

optional_converter(closure, value) ==
    IF value = NoneV THEN NoneV ELSE CallInner(closure.converter.fn, value)

AnnotationTypes == {"int", "str"}

InnerConverters ==
    {Converter(fn, first, ret) :
        fn \in {"to_bool", "neg"},
        first \in AnnotationTypes \cup {Empty},
        ret \in AnnotationTypes \cup {Empty}}

OptionalValues == {NoneV, BoolV(TRUE), IntV(0), IntV(2), StrV(<<"o", "n">>), StrV(<<"O", "N">>)}

\* a call optional(converter)
OptionalWrap ==
    \E converter \in InnerConverters :
        /\ ow_inner' = converter
        /\ ow_conv' = optional(converter)
        /\ ow_val' = Idle
        /\ ow_res' = Idle
        /\ UNCHANGED <<boolVars, pipeVars, defVars, cmpVars, filterVars, evolveVars, projVars, versionVars>>

\* a call of the converter optional returned
OptionalConvert ==
    /\ ow_conv # Idle
    /\ \E value \in OptionalValues :
        /\ ow_val' = value
        /\ ow_res' = optional_converter(ow_conv, value)
    /\ UNCHANGED <<ow_inner, ow_conv>>
    /\ UNCHANGED <<boolVars, pipeVars, defVars, cmpVars, filterVars, evolveVars, projVars, versionVars>>

\* optional not called
InitOptional ==
    /\ ow_inner = Idle
    /\ ow_conv = Idle
    /\ ow_val = Idle
    /\ ow_res = Idle

-----------------------------------------------------------------------------

\* nothing has been called
Init ==
    /\ InitBool /\ InitPipe /\ InitDefault /\ InitCmp /\ InitFilter
    /\ InitEvolve /\ InitProject /\ InitVersion /\ InitOptional

SpecBool == Init /\ [][ToBool]_vars

SpecPipe == Init /\ [][SetAttr]_vars

NextDefault == DefaultIfNone \/ DefaultConvert

SpecDefault == Init /\ [][NextDefault]_vars

\* before a call of a filter: its inputs are chosen, nothing else has run
BeforeFilter ==
    /\ InitBool /\ InitPipe /\ InitDefault /\ InitCmp /\ FilterInputs
    /\ InitEvolve /\ InitProject /\ InitVersion /\ InitOptional

SpecFilter == BeforeFilter /\ [][Filter]_vars

\* before a call of evolve: its inputs are chosen, nothing else has run
BeforeEvolve ==
    /\ InitBool /\ InitPipe /\ InitDefault /\ InitCmp /\ InitFilter
    /\ EvolveInputs /\ InitProject /\ InitVersion /\ InitOptional

SpecEvolve == BeforeEvolve /\ [][Evolve]_vars

NextProject == AsDict \/ AsTuple

\* before a call of asdict or astuple: its inputs are chosen, nothing else has run
BeforeProject ==
    /\ InitBool /\ InitPipe /\ InitDefault /\ InitCmp /\ InitFilter
    /\ InitEvolve /\ ProjectInputs /\ InitVersion /\ InitOptional

SpecProject == BeforeProject /\ [][NextProject]_vars

NextCmp == CmpUsing \/ Compare

SpecCmp == Init /\ [][NextCmp]_vars

\* before a comparison of a VersionInfo: its operands are chosen
BeforeVersion ==
    /\ InitBool /\ InitPipe /\ InitDefault /\ InitCmp /\ InitFilter
    /\ InitEvolve /\ InitProject /\ VersionInputs /\ InitOptional

SpecVersion == BeforeVersion /\ [][VersionCompare]_vars

NextOptional == OptionalWrap \/ OptionalConvert

SpecOptional == Init /\ [][NextOptional]_vars

-----------------------------------------------------------------------------
(* C5 *)

\* chars spells token, in any mix of upper and lower case
C5_SpellsAnyCase(chars, token) ==
    /\ Len(chars) = Len(token)
    /\ \A i \in 1..Len(token) :
          \/ chars[i] = token[i]
          \/ <<chars[i], token[i]>> \in CasePairs

C5_Truthy(v) ==
    \/ v = BoolV(TRUE)
    \/ v = IntV(1)
    \/ v.k = "str" /\ \E t \in TrueTokens : C5_SpellsAnyCase(v.cs, t)

C5_Falsy(v) ==
    \/ v = BoolV(FALSE)
    \/ v = IntV(0)
    \/ v.k = "str" /\ \E t \in FalseTokens : C5_SpellsAnyCase(v.cs, t)

\* C5: to_bool returns True for True, 1 and any-case "true", "t", "yes", "y",
\* "on", "1"; False for False, 0 and any-case "false", "f", "no", "n", "off",
\* "0"; and raises ValueError for every other input.
C5_ToBoolTable ==
    tb_val # Idle =>
        /\ C5_Truthy(tb_val) => tb_res = BoolV(TRUE)
        /\ C5_Falsy(tb_val) => tb_res = BoolV(FALSE)
        /\ ~C5_Truthy(tb_val) /\ ~C5_Falsy(tb_val) => tb_res = Raise("ValueError")

\* an upper-case spelling is accepted, and "maybe" and 2 are rejected
C5_Witness ==
    \/ tb_val = StrV(<<"Y", "E", "S">>) /\ tb_res = BoolV(TRUE)
    \/ tb_val = StrV(<<"m", "a", "y", "b", "e">>) /\ tb_res = Raise("ValueError")

-----------------------------------------------------------------------------
(* C9 *)

\* the calls of the pipe's own setters, in the order they were made
C9_SetterCalls == SelectSeq(pp_log, LAMBDA c : c.fn \in Setters)

\* C9: pipe(s1, ..., sn) runs the setters in declaration order: s1 receives
\* the value written, every later setter the output of the one before, and
\* the pipe returns the last output; when a setter raises, no later setter
\* is called and the exception is what the pipe raises.  With
\* pipe(validate, convert), a to_bool converter and a validator rejecting
\* None, writing "yes" yields True and writing None raises in validation
\* without the converter being called.
C9_PipeInOrder ==
    pp_val # Idle =>
        LET sc == C9_SetterCalls
            n == Len(sc)
        IN  /\ n <= Len(pp_setters)
            /\ \A i \in 1..n :
                  /\ sc[i].fn = pp_setters[i]
                  /\ sc[i].arg = IF i = 1 THEN pp_val ELSE sc[i - 1].out
                  /\ i < n => ~IsRaise(sc[i].out)
            /\ n < Len(pp_setters) => n >= 1 /\ IsRaise(sc[n].out)
            /\ pp_res = IF n = 0 THEN pp_val ELSE sc[n].out
            /\ ( /\ pp_setters = <<"validate", "convert">>
                 /\ pp_attr = [validator |-> "not_none", converter |-> "to_bool"]
                 /\ pp_val = StrV(<<"y", "e", "s">>) )
               => pp_res = BoolV(TRUE)
            /\ ( /\ pp_setters = <<"validate", "convert">>
                 /\ pp_attr = [validator |-> "not_none", converter |-> "to_bool"]
                 /\ pp_val = NoneV )
               => /\ pp_res = Raise("ValidationError")
                  /\ \A i \in 1..Len(pp_log) : pp_log[i].fn # "converter"

\* pipe(validate, convert) has validated "yes" and then converted it
C9_Witness ==
    /\ pp_setters = <<"validate", "convert">>
    /\ pp_attr = [validator |-> "not_none", converter |-> "to_bool"]
    /\ pp_val = StrV(<<"y", "e", "s">>)
    /\ Len(C9_SetterCalls) = 2
    /\ pp_res = BoolV(TRUE)

-----------------------------------------------------------------------------
(* C10 *)

\* the factory a default_if_none call ends up with, NoneV when it has none
C10_Factory ==
    IF df_args[2] # NoneV THEN df_args[2]
    ELSE IF df_args[1].k = "Factory" THEN Callable(df_args[1].cs[1])
    ELSE NoneV

\* C10: default_if_none(default, factory) raises TypeError when neither or
\* both are given and raises when default is a Factory with takes_self;
\* otherwise it returns a converter c with c(v) = v for every v that is not
\* None, and c(None) the default, or the result of a new call of the factory
\* (the one given, or the one inside a Factory default) on every call.
C10_DefaultIfNone ==
    LET default == df_args[1]
        factory == df_args[2]
        misuse == (default = NOTHING) <=> (factory = NoneV)
        takes_self == default.k = "Factory" /\ default.n = 1
    IN  /\ df_conv # Idle =>
              /\ misuse => df_conv = Raise("TypeError")
              /\ ~misuse /\ takes_self => IsRaise(df_conv)
              /\ ~misuse /\ ~takes_self => df_conv.k = "converter"
        /\ df_val # Idle =>
              /\ df_val # NoneV => df_res = df_val
              /\ df_val = NoneV /\ C10_Factory = NoneV => df_res = default
              /\ df_val = NoneV /\ C10_Factory # NoneV =>
                    df_res = Made(C10_Factory.cs[1], df_nones)
        /\ df_calls = IF C10_Factory # NoneV THEN df_nones ELSE 0

\* the converter has been called with None twice and has called the factory
\* inside its Factory default twice
C10_Witness ==
    /\ df_args = <<Factory("list", FALSE), NoneV>>
    /\ df_val = NoneV
    /\ df_nones = MaxCalls
    /\ df_res = Made("list", MaxCalls)

-----------------------------------------------------------------------------
(* C6, C7, C8 *)

\* C6: with require_same_type, every method of the class (==, !=, <, <=, >,
\* >=) called with an operand of another type returns NotImplemented: it
\* raises nothing and does not call the caller's predicate.
C6_OtherTypeNotImplemented ==
    ( /\ cm_op # ""
      /\ cm_cls.require_same_type
      /\ cm_other.type # cm_self.type )
    => cm_res = NotImplemented /\ cm_log = <<>>

\* != has been called with an int, which has no value attribute
C6_Witness ==
    /\ cm_op = "__ne__"
    /\ cm_cls.require_same_type
    /\ cm_other.type = "int"
    /\ cm_res = NotImplemented

\* C7: for two instances of the class, every method returns what the
\* caller's predicate for it returns on (self.value, other.value), in that
\* order, and != returns the negation of eq(self.value, other.value).
C7_SameTypeCallsPredicate ==
    (cm_op # "" /\ cm_other.type = cm_self.type) =>
        LET a == cm_self.value
            b == cm_other.value
        IN  IF cm_op = "__ne__"
            THEN /\ cm_res = BoolV(~Apply(cm_cls.body["__eq__"], a, b))
                 /\ cm_log = <<PredCall(cm_cls.body["__eq__"], a, b)>>
            ELSE /\ cm_res = BoolV(Apply(cm_cls.body[cm_op], a, b))
                 /\ cm_log = <<PredCall(cm_cls.body[cm_op], a, b)>>

\* < has been called on (1, 0) with the predicate succ, which holds of
\* (1, 0) and not of (0, 1)
C7_Witness ==
    /\ cm_op = "__lt__"
    /\ cm_cls.body["__lt__"] = "succ"
    /\ cm_other.type = cm_self.type
    /\ cm_self.value = 1 /\ cm_other.value = 0
    /\ cm_res = BoolV(TRUE)

C8_Ordering == {"__lt__", "__le__", "__gt__", "__ge__"}

\* C8: the class cmp_using returns has all of <, <=, >, >= whenever eq and
\* at least one of lt, le, gt, ge are given.
C8_FullOrdering ==
    ( /\ "__eq__" \in DOMAIN cm_cls.body
      /\ C8_Ordering \cap DOMAIN cm_cls.body # {} )
    => C8_Ordering \subseteq DOMAIN cm_cls.body

-----------------------------------------------------------------------------
(* C4 *)

\* C4: for every set of selectors (names, types, Attributes) and every
\* (field, value), exactly one of include(S)(field, value) and
\* exclude(S)(field, value) is true.
C4_IncludeExcludeComplement ==
    fl_inc # Idle =>
        \/ fl_inc = BoolV(TRUE) /\ fl_exc = BoolV(FALSE)
        \/ fl_inc = BoolV(FALSE) /\ fl_exc = BoolV(TRUE)

\* a field selected only by its Attribute: include accepts, exclude rejects
C4_Witness ==
    /\ fl_what = {AttrSel(fl_attr)}
    /\ fl_inc = BoolV(TRUE)
    /\ fl_exc = BoolV(FALSE)

-----------------------------------------------------------------------------
(* C1 *)

\* the argument evolve hands the initializer for an init field
C1_Argument(name) ==
    IF name \in DOMAIN ev_changes THEN ev_changes[name] ELSE ev_inst.vals[name]

\* what a field's converter, if it has one, makes of that argument
C1_Stored(name) ==
    LET attribute == FieldNamed(ev_inst.cls, name)
    IN  IF attribute.converter = "None" THEN C1_Argument(name)
        ELSE IF C5_Truthy(C1_Argument(name)) THEN BoolV(TRUE)
        ELSE IF C5_Falsy(C1_Argument(name)) THEN BoolV(FALSE)
        ELSE Raise("ValueError")

\* C1 as claimed: evolve(inst, f=X) for init fields f returns a new instance
\* of the same class whose field f equals X and whose every other init
\* field equals inst's value; a change naming a field that is not init or
\* does not exist raises TypeError.
C1_EvolveStoresChanges ==
    (ev_res # Idle /\ has(ev_inst)) =>
        IF DOMAIN ev_changes \subseteq InitNames(ev_inst.cls)
        THEN /\ has(ev_res)
             /\ ev_res.cls = ev_inst.cls
             /\ \A name \in InitNames(ev_inst.cls) :
                   ev_res.vals[name] = C1_Argument(name)
        ELSE ev_res = Raise("TypeError")

\* C1, amended: evolve hands the initializer f=X and inst's value for every
\* other init field, and returns what the initializer makes of them: a new
\* instance of the same class whose init fields hold those arguments after
\* the fields' converters have run, or the exception of a converter that
\* rejects its argument; a change naming a field that is not init or does
\* not exist raises TypeError before the initializer is called.
C1_EvolveThroughInitializer ==
    (ev_res # Idle /\ has(ev_inst)) =>
        IF DOMAIN ev_changes \subseteq InitNames(ev_inst.cls)
        THEN IF \E name \in InitNames(ev_inst.cls) : IsRaise(C1_Stored(name))
             THEN ev_res = Raise("ValueError")
             ELSE /\ has(ev_res)
                  /\ ev_res.cls = ev_inst.cls
                  /\ \A name \in InitNames(ev_inst.cls) :
                        ev_res.vals[name] = C1_Stored(name)
        ELSE ev_res = Raise("TypeError")

\* evolve(inst, a="yes") on a class whose a has the to_bool converter and
\* whose b is an init field: a is stored as True, b is inst's b
C1_Witness ==
    /\ has(ev_inst)
    /\ has(ev_res)
    /\ DOMAIN ev_changes = {"a"}
    /\ ev_changes["a"] = StrV(<<"y", "e", "s">>)
    /\ FieldNamed(ev_inst.cls, "a").converter = "to_bool"
    /\ FieldNamed(ev_inst.cls, "b").init
    /\ ev_res.vals["a"] = BoolV(TRUE)
    /\ ev_res.vals["b"] = ev_inst.vals["b"]

-----------------------------------------------------------------------------
(* C2, C3 *)

\* whether the filter passed accepts the i-th field: it names fields only
C2_Accepts(i) ==
    LET name == NameSel(fields(ClassOf(pj_inst))[i].name)
    IN  \/ pj_filter.mode = "None"
        \/ pj_filter.mode = "include" /\ name \in pj_filter.what
        \/ pj_filter.mode = "exclude" /\ name \notin pj_filter.what

\* the accepted fields, in declared order
C2_Accepted ==
    SelectSeq([i \in 1..Len(fields(ClassOf(pj_inst))) |-> i], C2_Accepts)

\* C2: for every instance and every filter, asdict and astuple list the
\* fields in declared order, hold exactly the fields whose (field, value)
\* the filter accepts and leave the others out; Point(1, 2) with a filter
\* excluding y projects to {x: 1}.
C2_ProjectionInOrder ==
    pj_fn # "" =>
        LET attrs == fields(ClassOf(pj_inst))
            accepted == C2_Accepted
        IN  /\ pj_res.k = IF pj_fn = "asdict" THEN "dict" ELSE "tuple"
            /\ Len(pj_res.items) = Len(accepted)
            /\ pj_fn = "asdict" =>
                  \A j \in 1..Len(accepted) :
                     pj_res.items[j].items[1] = PStr(attrs[accepted[j]].name)
            /\ (pj_fn = "astuple" /\ ~pj_recurse) =>
                  \A j \in 1..Len(accepted) :
                     pj_res.items[j] = GetAttr(pj_inst, accepted[j])
            /\ ( /\ pj_fn = "asdict"
                 /\ pj_inst.items[1] = PInt(1)
                 /\ pj_filter = FilterArg("exclude", {NameSel("y")}) )
               => pj_res = PDict(<<PPair(PStr("x"), PInt(1))>>)

RECURSIVE C3_Plain(_)
\* a tree of ints, strs, instances and the four collections: no dict in it
C3_Plain(obj) ==
    /\ obj.k # "dict"
    /\ \A i \in 1..Len(obj.items) : C3_Plain(obj.items[i])

RECURSIVE C3_KindsFollow(_, _, _)
\* proj is orig with every collection in it, at every depth, of its own
\* kind (retain) or a list (not retain), and every instance a dict
C3_KindsFollow(orig, proj, retain) ==
    IF orig.k \in Collections
    THEN /\ proj.k = IF retain THEN orig.k ELSE "list"
         /\ Len(proj.items) = Len(orig.items)
         /\ \A i \in 1..Len(orig.items) :
               C3_KindsFollow(orig.items[i], proj.items[i], retain)
    ELSE IF has(orig) THEN proj.k = "dict"
    ELSE proj = orig

-----------------------------------------------------------------------------
(* C11 *)

\* the first len(t) components of (year, minor, micro, releaselevel)
C11_Prefix ==
    SubSeq(<<vi_self.year, vi_self.minor, vi_self.micro, vi_self.releaselevel>>,
           1, Len(vi_other.items))

\* C11: compared to a tuple t of 1 to 4 items, vi == t is whether the first
\* len(t) components of the VersionInfo equal t, and vi < t is whether that
\* prefix is lexicographically less than t.
C11_ComparesPrefix ==
    (/\ vi_op \in {"__eq__", "__lt__"}
     /\ vi_other.k = "tuple"
     /\ Len(vi_other.items) \in 1..4)
    => vi_res = IF vi_op = "__eq__"
                THEN BoolV(C11_Prefix = vi_other.items)
                ELSE TupleLt(C11_Prefix, vi_other.items)

-----------------------------------------------------------------------------
(* C12 *)

\* the annotations the wrapper of inner is to carry
C12_Carried(inner) ==
    {<<"value", Optional(get_first_param_type(inner))>> :
        x \in {y \in {1} : get_first_param_type(inner) # "None"}}
    \cup
    {<<"return", Optional(get_return_type(inner))>> :
        x \in {y \in {1} : get_return_type(inner) # "None"}}

\* C12: the converter optional(inner) returns carries the input type
\* Optional[first parameter type of inner] and the output type
\* Optional[return type of inner] for each of the two that inner declares,
\* and no type metadata when inner declares none.
C12_OptionalCarriesTypes ==
    ow_conv # Idle => ow_conv.annotations = C12_Carried(ow_inner)

-----------------------------------------------------------------------------
(* C13 *)

\* C13: asdict with recurse puts, for every field it keeps whose value is a
\* mapping, a mapping of as many entries in the output, in which every
\* record held as a value of the field's mapping is replaced by its own
\* asdict projection.
C13_MappingProjected ==
    (pj_fn = "asdict" /\ pj_recurse) =>
        \A j \in 1..Len(Kept(pj_inst, pj_filter)) :
            LET v == GetAttr(pj_inst, Kept(pj_inst, pj_filter)[j])
            IN  v.k = "dict" =>
                    /\ pj_res.k = "dict"
                    /\ LET out == pj_res.items[j].items[2]
                       IN  /\ out.k = "dict"
                           /\ Len(out.items) = Len(v.items)
                           /\ \A p \in 1..Len(v.items) :
                                 v.items[p].items[2].k = "instance" =>
                                    out.items[p].items[2]
                                       = asdict(v.items[p].items[2], TRUE, pj_filter,
                                                pj_retain)

-----------------------------------------------------------------------------
(* C14 *)

RECURSIVE C14_NoRecord(_)
\* no record instance is left anywhere in obj
C14_NoRecord(obj) ==
    /\ obj.k # "instance"
    /\ \A i \in 1..Len(obj.items) : C14_NoRecord(obj.items[i])

\* C14: astuple with recurse, on an instance with a kept field whose value
\* is a mapping, sequence, set or frozenset, returns a tuple with one entry
\* per accepted field, in which no record instance is left: every nested
\* record has been replaced by its projection.
C14_AstupleProjects ==
    (/\ pj_fn = "astuple"
     /\ pj_recurse
     /\ \E j \in 1..Len(Kept(pj_inst, pj_filter)) :
           GetAttr(pj_inst, Kept(pj_inst, pj_filter)[j]).k \in Collections \cup {"dict"})
    => /\ pj_res.k = "tuple"
       /\ Len(pj_res.items) = Len(Kept(pj_inst, pj_filter))
       /\ C14_NoRecord(pj_res)

-----------------------------------------------------------------------------
(* C15 *)

RECURSIVE C15_CollectionKey(_)
\* some mapping in obj has a key that is a collection
C15_CollectionKey(obj) ==
    \/ /\ obj.k = "dict"
       /\ \E p \in 1..Len(obj.items) : obj.items[p].items[1].k \in Collections
    \/ \E i \in 1..Len(obj.items) : C15_CollectionKey(obj.items[i])

RECURSIVE C15_KeysAreTuples(_)
\* every key of a mapping in obj that is a collection is a tuple
C15_KeysAreTuples(obj) ==
    /\ obj.k = "dict" =>
          \A p \in 1..Len(obj.items) :
             obj.items[p].items[1].k \in Collections => obj.items[p].items[1].k = "tuple"
    /\ \A i \in 1..Len(obj.items) : C15_KeysAreTuples(obj.items[i])

\* C15: asdict with recurse and retain_collection_types = False, on an
\* instance that holds a mapping with a collection for a key, does not fail:
\* it returns the projection, in which every such key is a tuple.
C15_CollectionKeysProjected ==
    (/\ pj_fn = "asdict"
     /\ pj_recurse
     /\ ~pj_retain
     /\ C15_CollectionKey(pj_inst))
    => /\ pj_res.k = "dict"
       /\ C15_KeysAreTuples(pj_res)

-----------------------------------------------------------------------------
(* C16 *)

\* C16: the predicate include(*what) returns answers true for (field,
\* value) when the field's name is among the names of what, or the field's
\* declared type is among the types of what, or the field itself is among
\* the Attributes of what, and false in every other case.
C16_IncludeAnswers ==
    fl_inc # Idle =>
        fl_inc = BoolV(\/ NameSel(fl_attr.name) \in split_what(fl_what).attributes
                       \/ TypeSel(fl_attr.type) \in split_what(fl_what).classes
                       \/ AttrSel(fl_attr) \in split_what(fl_what).attributes)

=============================================================================
